---- MODULE Spec2Model ----
(***************************************************************************)
(* Delhi High Court PDF crawler (src/app.py).                              *)
(*                                                                         *)
(* The model has three layers:                                             *)
(*   - the pure helpers (get_total_pages, extract_pdfs, load_combinations) *)
(*     as operators, computed as the code computes them;                   *)
(*   - the crawl worker crawl_pdfs as a state machine, one action per      *)
(*     statement group, with the portal, the PDF host, Google Drive and    *)
(*     the disk as nondeterministic environment;                           *)
(*   - the Streamlit script main() as the foreground thread that starts    *)
(*     the worker and drains its progress queue.                           *)
(*                                                                         *)
(* Abstractions.  A page body is a short sequence of words (for the        *)
(* phrase searches) plus the parsed structure the code looks at (banner    *)
(* div, hidden input, results table).  A progress message is a record of   *)
(* its kind and its key data; the two substring tests of main() on a       *)
(* message are tests on its kind, i.e. text that comes from outside        *)
(* (titles, category names, exception texts) is taken not to contain the   *)
(* marker phrases.  Logger output is not state.                            *)
(***************************************************************************)
EXTENDS Integers, Sequences, FiniteSets, TLC

\* ------------------------------------------------------------------ bounds
\* longest decimal string in the banner / the hidden field's value
MaxDigits == 2
\* longest page text, in words
MaxWords == 3
\* most <tr> elements of a results table (header included)
MaxTrs == 3
\* most rows of the combinations sheet
MaxFileRows == 2
\* most script re-executions within one Streamlit session
MaxReruns == 1

\* ------------------------------------------------------- program constants
records_per_page == 10
MinCols == 5

\* ------------------------------------------------------------- sequences
\* the sequences over S of length at most n
SeqsUpTo(S, n) == UNION {[1..k -> S] : k \in 0..n}

Last(s) == s[Len(s)]
Front(s) == SubSeq(s, 1, Len(s) - 1)

\* ------------------------------------------------------------- page text
Words == {"no", "No", "records", "RECORDS", "found", "Matching", "x"}

\* str.lower() on one word
LowerWord(w) ==
    CASE w = "No" -> "no"
      [] w = "RECORDS" -> "records"
      [] w = "Matching" -> "matching"
      [] OTHER -> w

Lower(text) == [i \in 1..Len(text) |-> LowerWord(text[i])]

\* Python's `phrase in text`: the phrase occurs as a contiguous run
Contains(text, phrase) ==
    \E i \in 1..(Len(text) - Len(phrase) + 1) :
        SubSeq(text, i, i + Len(phrase) - 1) = phrase

PhraseNoRecordsFound == <<"no", "records", "found">>
PhraseNoMatchingRecords == <<"no", "matching", "records">>
PhraseNoRecords == <<"no", "records">>

\* ------------------------------------------------------ decimal strings
Digits == {"0", "1", "3", "4", "7"}
Chars == Digits \cup {"-", "x"}

DigitVal(c) ==
    CASE c = "0" -> 0
      [] c = "1" -> 1
      [] c = "3" -> 3
      [] c = "4" -> 4
      [] c = "7" -> 7
      [] OTHER -> 0

RECURSIVE DecimalValue(_)
DecimalValue(s) ==
    IF s = <<>> THEN 0 ELSE DecimalValue(Front(s)) * 10 + DigitVal(Last(s))

AllDigits(s) == s # <<>> /\ \A i \in 1..Len(s) : s[i] \in Digits

\* int(s): an optional sign, then one or more digits; anything else raises
IntParses(s) ==
    \/ AllDigits(s)
    \/ Len(s) >= 2 /\ s[1] = "-" /\ AllDigits(Tail(s))

IntOf(s) == IF s[1] = "-" THEN 0 - DecimalValue(Tail(s)) ELSE DecimalValue(s)

\* ------------------------------------------------------- parsed structure
\* banner: the div 'row justify-content-center'; digits is group 1 of the
\* match of 'total (\d+) records' in its text, <<>> when there is no match
Banner(div, digits) == [div |-> div, digits |-> digits]
NoBanner == Banner(FALSE, <<>>)

\* hidden: the input with id total_no_page; value is its value attribute,
\* <<>> when the attribute is missing or empty
Hidden(input, value) == [input |-> input, value |-> value]
NoHidden == Hidden(FALSE, <<>>)

\* one <tr>: the number of its <td> cells, the case number text, and what
\* cols[4].find('a') gives: no anchor, an anchor without href, or an href.
\* bad marks markup on which the row's processing raises.
Row(tds, case_no, href, bad) == [tds |-> tds, case_no |-> case_no, href |-> href, bad |-> bad]
Hrefs == {"rel_a", "abs_a", "rel_b"}
CaseNos == {"W1", "W2"}
HeaderRow == Row(0, "W1", "noanchor", FALSE)
BadRow == Row(5, "W1", "noanchor", TRUE)
ShortRows == {Row(3, c, "noanchor", FALSE) : c \in CaseNos}
FullRows == {Row(5, c, h, FALSE) : c \in CaseNos, h \in Hrefs \cup {"noanchor", "nohref"}}
Rows == {HeaderRow, BadRow} \cup ShortRows \cup FullRows

Table(present, trs) == [present |-> present, trs |-> trs]
NoTable == Table(FALSE, <<>>)

\* a fetched page: response.text (blank: the empty string) and its soup
Page(blank, text, banner, hidden, table) ==
    [blank |-> blank, text |-> text, banner |-> banner, hidden |-> hidden, table |-> table]

\* urljoin('https://dhccaseinfo.nic.in/', href): a relative and an absolute
\* href of the same document give the same URL
urljoin(href) ==
    CASE href = "rel_a" -> "https://dhccaseinfo.nic.in/a.pdf"
      [] href = "abs_a" -> "https://dhccaseinfo.nic.in/a.pdf"
      [] href = "rel_b" -> "https://dhccaseinfo.nic.in/b.pdf"
      [] OTHER -> "https://dhccaseinfo.nic.in/"

Urls == {urljoin(h) : h \in Hrefs}

\* --------------------------------------------------------- progress events
\* one message put on the progress queue: its kind (the fixed part of the
\* f-string), the page number, the pdf_url and a count, where it has them
Ev(kind, page, url, n) == [kind |-> kind, page |-> page, url |-> url, n |-> n]

\* main's test: "Crawling completed" in message or "Error in crawling" in message
IsTerminalMarker(msg) == msg.kind \in {"Crawling completed", "Error in crawling"}

\* ------------------------------------------------------- save_debug_html
\* disk: whether makedirs/open/write succeed
save_debug_html(disk, page_no) ==
    IF disk THEN <<Ev("Saved debug HTML", page_no, "", 0)>>
    ELSE <<Ev("Error saving debug HTML", page_no, "", 0)>>

\* ------------------------------------------------------- get_total_pages
\* (mutant) the hidden field is consulted before the banner
get_total_pages_HiddenFirst(soup) ==
    IF soup.hidden.input /\ soup.hidden.value # <<>>
    THEN IF IntParses(soup.hidden.value)
         THEN IntOf(soup.hidden.value)
         ELSE 1
    ELSE IF soup.banner.div /\ soup.banner.digits # <<>>
         THEN (DecimalValue(soup.banner.digits) + records_per_page - 1) \div records_per_page
         ELSE 1

get_total_pages(soup) ==
    IF soup.banner.div /\ soup.banner.digits # <<>>
    THEN (DecimalValue(soup.banner.digits) + records_per_page - 1) \div records_per_page
    ELSE IF soup.hidden.input /\ soup.hidden.value # <<>>
         THEN IF IntParses(soup.hidden.value)
              THEN IntOf(soup.hidden.value)
              ELSE 1
         ELSE 1

\* ----------------------------------------------------------- extract_pdfs
Descriptor(row) == [case_no |-> row.case_no, pdf_url |-> urljoin(row.href)]

HasPdfLink(row) == row.href \notin {"noanchor", "nohref"}

\* (mutant) a row with too few columns ends the loop over the rows
RECURSIVE ScanRows_StopAtShortRow(_, _, _, _, _)
ScanRows_StopAtShortRow(rows, i, page_no, pdfs, events) ==
    IF i > Len(rows)
    THEN [pdfs |-> pdfs, raised |-> FALSE,
          events |-> Append(events, Ev("Found PDFs", page_no, "", Len(pdfs)))]
    ELSE IF rows[i].bad
    THEN [pdfs |-> <<>>, raised |-> TRUE, events |-> events]
    ELSE IF rows[i].tds >= MinCols
    THEN IF HasPdfLink(rows[i])
         THEN ScanRows_StopAtShortRow(rows, i + 1, page_no,
                                      Append(pdfs, Descriptor(rows[i])), events)
         ELSE ScanRows_StopAtShortRow(rows, i + 1, page_no, pdfs, events)
    ELSE [pdfs |-> pdfs, raised |-> FALSE,
          events |-> events \o <<Ev("Insufficient columns", page_no, "", 0),
                                 Ev("Found PDFs", page_no, "", Len(pdfs))>>]

\* the loop over the data rows, from row i on; raised: a row raised
RECURSIVE ScanRows(_, _, _, _, _)
ScanRows(rows, i, page_no, pdfs, events) ==
    IF i > Len(rows)
    THEN [pdfs |-> pdfs, raised |-> FALSE,
          events |-> Append(events, Ev("Found PDFs", page_no, "", Len(pdfs)))]
    ELSE IF rows[i].bad
    THEN [pdfs |-> <<>>, raised |-> TRUE, events |-> events]
    ELSE IF rows[i].tds >= MinCols
    THEN IF HasPdfLink(rows[i])
         THEN ScanRows(rows, i + 1, page_no, Append(pdfs, Descriptor(rows[i])), events)
         ELSE ScanRows(rows, i + 1, page_no, pdfs, events)
    ELSE ScanRows(rows, i + 1, page_no, pdfs,
                  Append(events, Ev("Insufficient columns", page_no, "", 0)))

\* table.find_all('tr')[1:]
DataRows(table) == IF table.trs = <<>> THEN <<>> ELSE Tail(table.trs)

HasNoRecordsPhrase(html_content) ==
    \/ Contains(Lower(html_content), PhraseNoRecordsFound)
    \/ Contains(Lower(html_content), PhraseNoMatchingRecords)

\* the result: the descriptors, the events put on the queue, and whether a
\* debug dump of the page was written
extract_pdfs(pg, page_no, disk) ==
    IF HasNoRecordsPhrase(pg.text)
    THEN [pdfs |-> <<>>, dumped |-> FALSE,
          events |-> <<Ev("No records found", page_no, "", 0)>>]
    ELSE IF ~pg.table.present
    THEN [pdfs |-> <<>>, dumped |-> disk,
          events |-> <<Ev("No results table found", page_no, "", 0)>>
                     \o save_debug_html(disk, page_no)]
    ELSE LET r == ScanRows(DataRows(pg.table), 1, page_no, <<>>, <<>>)
         IN IF r.raised
            THEN [pdfs |-> <<>>, dumped |-> disk,
                  events |-> Append(r.events, Ev("Error extracting PDFs", page_no, "", 0))
                             \o save_debug_html(disk, page_no)]
            ELSE [pdfs |-> r.pdfs, dumped |-> FALSE, events |-> r.events]

\* ----------------------------------------------------------- download_pdf
\* outcome: what the PDF host and Google Drive do with this request
Outcomes == {"ok", "download_fails", "upload_fails"}

\* (mutant) the membership test is missing
download_pdf_NoSkip(pdf_info, processed_urls, outcome) ==
    IF outcome = "download_fails"
    THEN [ret |-> FALSE, processed_urls |-> processed_urls, get |-> TRUE, upload |-> FALSE,
          events |-> <<Ev("Error downloading PDF", 0, pdf_info.pdf_url, 0)>>]
    ELSE IF outcome = "upload_fails"
    THEN [ret |-> FALSE, processed_urls |-> processed_urls, get |-> TRUE, upload |-> TRUE,
          events |-> <<Ev("Error processing PDF", 0, pdf_info.pdf_url, 0)>>]
    ELSE [ret |-> TRUE, processed_urls |-> processed_urls \cup {pdf_info.pdf_url},
          get |-> TRUE, upload |-> TRUE,
          events |-> <<Ev("Uploaded to Google Drive", 0, pdf_info.pdf_url, 0)>>]

\* (mutant) the URL is added to the set before the GET
download_pdf_AddOnGet(pdf_info, processed_urls, outcome) ==
    IF pdf_info.pdf_url \in processed_urls
    THEN [ret |-> FALSE, processed_urls |-> processed_urls, get |-> FALSE, upload |-> FALSE,
          events |-> <<Ev("Skipping duplicate PDF", 0, pdf_info.pdf_url, 0)>>]
    ELSE IF outcome = "download_fails"
    THEN [ret |-> FALSE, processed_urls |-> processed_urls \cup {pdf_info.pdf_url},
          get |-> TRUE, upload |-> FALSE,
          events |-> <<Ev("Error downloading PDF", 0, pdf_info.pdf_url, 0)>>]
    ELSE IF outcome = "upload_fails"
    THEN [ret |-> FALSE, processed_urls |-> processed_urls \cup {pdf_info.pdf_url},
          get |-> TRUE, upload |-> TRUE,
          events |-> <<Ev("Error processing PDF", 0, pdf_info.pdf_url, 0)>>]
    ELSE [ret |-> TRUE, processed_urls |-> processed_urls \cup {pdf_info.pdf_url},
          get |-> TRUE, upload |-> TRUE,
          events |-> <<Ev("Uploaded to Google Drive", 0, pdf_info.pdf_url, 0)>>]

\* the result: the return value, the set afterwards, the events, and
\* whether the GET and the upload were issued
download_pdf(pdf_info, processed_urls, outcome) ==
    IF pdf_info.pdf_url \in processed_urls
    THEN [ret |-> FALSE, processed_urls |-> processed_urls, get |-> FALSE, upload |-> FALSE,
          events |-> <<Ev("Skipping duplicate PDF", 0, pdf_info.pdf_url, 0)>>]
    ELSE IF outcome = "download_fails"
    THEN [ret |-> FALSE, processed_urls |-> processed_urls, get |-> TRUE, upload |-> FALSE,
          events |-> <<Ev("Error downloading PDF", 0, pdf_info.pdf_url, 0)>>]
    ELSE IF outcome = "upload_fails"
    THEN [ret |-> FALSE, processed_urls |-> processed_urls, get |-> TRUE, upload |-> TRUE,
          events |-> <<Ev("Error processing PDF", 0, pdf_info.pdf_url, 0)>>]
    ELSE [ret |-> TRUE, processed_urls |-> processed_urls \cup {pdf_info.pdf_url},
          get |-> TRUE, upload |-> TRUE,
          events |-> <<Ev("Uploaded to Google Drive", 0, pdf_info.pdf_url, 0)>>]

\* ------------------------------------------------------ load_combinations
Combo(value, name) == [Category_Value |-> value, Category_Name |-> name, Year |-> "2023"]
Civil == Combo("31", "Civil")
Criminal == Combo("32", "Criminal")
Combos == {Civil, Criminal}

\* the sheet: whether the file exists, whether it has the three required
\* columns, and its rows
Sheet(exists, columns, rows) == [exists |-> exists, columns |-> columns, rows |-> rows]

\* DataFrame.drop_duplicates(): the first occurrence of each row is kept
RECURSIVE drop_duplicates(_)
drop_duplicates(rows) ==
    IF rows = <<>> THEN <<>>
    ELSE LET front == drop_duplicates(Front(rows))
         IN IF \E j \in 1..Len(front) : front[j] = Last(rows)
            THEN front
            ELSE Append(front, Last(rows))

\* every raise inside is caught and gives []
load_combinations(sheet) ==
    IF ~sheet.exists THEN <<>>
    ELSE IF ~sheet.columns THEN <<>>
    ELSE drop_duplicates(sheet.rows)

\* ------------------------------------------------------------ crawl pages
\* The pages the portal of the model can answer with.
HitRowA1 == Row(5, "W1", "rel_a", FALSE)
HitRowA2 == Row(5, "W2", "abs_a", FALSE)
HitRowB == Row(5, "W2", "rel_b", FALSE)
\* 11 records on 2 pages; two rows whose links are the same document, and a
\* short row between them
PgHits ==
    Page(FALSE, <<"x">>, Banner(TRUE, <<"1", "1">>), NoHidden,
         Table(TRUE, <<HeaderRow, HitRowA1, Row(3, "W1", "noanchor", FALSE), HitRowA2>>))
\* "No Matching RECORDS", and a hidden page count of 3
PgNoMatch ==
    Page(FALSE, <<"No", "Matching", "RECORDS">>, NoBanner, Hidden(TRUE, <<"3">>), NoTable)
\* "No RECORDS found", and a banner of 0 records
PgNoneFound ==
    Page(FALSE, <<"No", "RECORDS", "found">>, Banner(TRUE, <<"0">>), NoHidden, NoTable)
\* no results table and no pagination data
PgMalformed == Page(FALSE, <<"x">>, NoBanner, NoHidden, NoTable)
\* a short row, a row without anchor, and one valid row
PgRows ==
    Page(FALSE, <<"x">>, NoBanner, NoHidden,
         Table(TRUE, <<HeaderRow, Row(3, "W1", "noanchor", FALSE),
                       Row(5, "W1", "noanchor", FALSE), HitRowB>>))
\* a 200 response with an empty body
PgBlank == Page(TRUE, <<>>, NoBanner, NoHidden, NoTable)
\* a table one of whose rows raises
PgBad == Page(FALSE, <<"x">>, NoBanner, NoHidden, Table(TRUE, <<HeaderRow, HitRowB, BadRow>>))
\* one page, one valid row
PgOne == Page(FALSE, <<"x">>, NoBanner, NoHidden, Table(TRUE, <<HeaderRow, HitRowA1>>))

\* 11 records on 2 pages, one valid row
PgTwo ==
    Page(FALSE, <<"x">>, Banner(TRUE, <<"1", "1">>), NoHidden, Table(TRUE, <<HeaderRow, HitRowA1>>))

\* what the portal may answer for a category: any of these pages, for any
\* page number (a failed request is always possible besides)
RichPortal ==
    [c \in {"31", "32"} |->
        IF c = "31"
        THEN {PgHits, PgNoMatch, PgNoneFound, PgMalformed, PgRows, PgBlank, PgBad}
        ELSE {PgOne, PgMalformed}]
\* the same without the three-page answer
AppPortal ==
    [c \in {"31", "32"} |->
        IF c = "31"
        THEN {PgHits, PgNoneFound, PgMalformed, PgRows, PgBlank, PgBad}
        ELSE {PgOne, PgMalformed}]
\* one answer: 11 records on 2 pages, one valid row
SmallPortal == [c \in {"31", "32"} |-> {PgTwo}]

\* the sheets
Sheets ==
    {Sheet(FALSE, FALSE, <<>>), Sheet(TRUE, FALSE, <<>>)}
    \cup {Sheet(TRUE, TRUE, rows) : rows \in SeqsUpTo(Combos, MaxFileRows)}
\* the sheets without a repeated row
AppSheets == {sheet \in Sheets : drop_duplicates(sheet.rows) = sheet.rows}
\* a missing file, a file without the columns, an empty one, one combination
SmallSheets ==
    {Sheet(FALSE, FALSE, <<>>), Sheet(TRUE, FALSE, <<>>), Sheet(TRUE, TRUE, <<>>),
     Sheet(TRUE, TRUE, <<Civil>>)}

\* ------------------------------------------------------------------ state
VARIABLES
    \* environment, fixed during a run
    xlsx,            \* case_category_year_combinations.xlsx
    portal,          \* the pages the portal can answer with, per category
    disk,            \* whether Debug_HTML can be written
    \* the crawl workers (threads running crawl_pdfs), in start order
    workers,
    \* st.session_state
    session,
    \* the script run of main(): its position and its final report
    fpc,
    report,
    reruns,
    \* Debug_HTML: the dumps written, as <<category name, page number>>
    dumps,
    \* every page request, PDF request, upload and sleep, in order
    timeline,
    \* the call of a pure helper on its own
    call

vars == <<xlsx, portal, disk, workers, session, fpc, report, reruns, dumps, timeline, call>>
envVars == <<xlsx, portal, disk>>
fgVars == <<fpc, report, reruns>>

\* a timeline entry: kind is "post" (a page request), "get" (a PDF request),
\* "upload", or "sleep"; w the worker, idx the combination's number, ok
\* whether the request succeeded, body the page a page request returned
Tl(kind, w, idx, page, url, secs, ok, body) ==
    [kind |-> kind, w |-> w, idx |-> idx, page |-> page, url |-> url, secs |-> secs,
     ok |-> ok, body |-> body]

\* a worker at the entry of crawl_pdfs
NewWorker ==
    [pc |-> "start", drive |-> "unset", combinations |-> <<>>, idx |-> 0,
     processed_urls |-> {}, page |-> 0, resp |-> PgBlank, total_pages |-> 0,
     pdfs |-> <<>>, k |-> 0]

NewSession == [init |-> FALSE, crawling |-> FALSE, progress_queue |-> <<>>, progress_log |-> <<>>]

IdleCall ==
    [fn |-> "none", arg |-> PgBlank, pages |-> 0, pdfs |-> <<>>, events |-> <<>>,
     dumped |-> FALSE]

\* progress_queue.put, for each of the events in order
Put(events) == [session EXCEPT !.progress_queue = @ \o events]

SetWorker(i, w) == [workers EXCEPT ![i] = w]

Combination(w) == w.combinations[w.idx]

\* after page `page` of a combination: the for loop over range(2, total_pages + 1)
\* goes on to the next page, or falls through to the sleep between combinations
AfterPage(w, page) ==
    IF page + 1 <= w.total_pages
    THEN [w EXCEPT !.page = page + 1, !.pc = "fetch"]
    ELSE [w EXCEPT !.pc = "sleep2"]

\* --------------------------------------------------------------- crawl_pdfs
\* get_drive_service(): the credentials load or raise
W_Start(i) ==
    /\ workers[i].pc = "start"
    /\ \E up \in BOOLEAN :
        IF up
        THEN /\ workers' = SetWorker(i, [workers[i] EXCEPT !.pc = "load", !.drive = "up"])
             /\ session' = Put(<<Ev("Connected to Google Drive", 0, "", 0)>>)
        ELSE /\ workers' = SetWorker(i, [workers[i] EXCEPT !.pc = "done", !.drive = "failed"])
             /\ session' = Put(<<Ev("Error in crawling", 0, "", 0)>>)
    /\ UNCHANGED <<envVars, fgVars, dumps, timeline, call>>

W_Load(i) ==
    /\ workers[i].pc = "load"
    /\ LET combinations == load_combinations(xlsx)
       IN IF combinations = <<>>
          THEN /\ workers' = SetWorker(i, [workers[i] EXCEPT !.pc = "done"])
               /\ session' = Put(<<Ev("No combinations loaded", 0, "", 0)>>)
          ELSE /\ workers' = SetWorker(i, [workers[i] EXCEPT !.pc = "next_combo",
                                                             !.combinations = combinations])
               /\ UNCHANGED session
    /\ UNCHANGED <<envVars, fgVars, dumps, timeline, call>>

\* the head of the loop over the combinations, and the loop's exit
W_NextCombo(i) ==
    /\ workers[i].pc = "next_combo"
    /\ IF workers[i].idx < Len(workers[i].combinations)
       THEN /\ workers' = SetWorker(i, [workers[i] EXCEPT !.idx = @ + 1, !.processed_urls = {},
                                                          !.page = 1, !.pc = "fetch1"])
            /\ session' = Put(<<Ev("Processing category", 0, "", workers[i].idx + 1)>>)
       ELSE /\ workers' = SetWorker(i, [workers[i] EXCEPT !.pc = "done"])
            /\ session' = Put(<<Ev("Crawling completed", 0, "", 0)>>)
    /\ UNCHANGED <<envVars, fgVars, dumps, timeline, call>>

\* fetch_page: the request fails, or the portal answers with a page
FetchFailure(page_no) == <<Ev("Error fetching page", page_no, "", 0)>>
FetchSuccess(page_no) == <<Ev("Status code", page_no, "", 0)>>

\* (mutant) fetch_page lets the request's exception through to crawl_pdfs
W_Fetch1_Uncaught(i) ==
    /\ workers[i].pc = "fetch1"
    /\ \/ /\ timeline' = Append(timeline, Tl("post", i, workers[i].idx, 1, "", 0, FALSE, PgBlank))
          /\ session' = Put(<<Ev("Error in crawling", 0, "", 0)>>)
          /\ workers' = SetWorker(i, [workers[i] EXCEPT !.pc = "done"])
       \/ \E pg \in portal[Combination(workers[i]).Category_Value] :
            /\ timeline' = Append(timeline, Tl("post", i, workers[i].idx, 1, "", 0, TRUE, pg))
            /\ session' = Put(FetchSuccess(1))
            /\ workers' = SetWorker(i,
                 IF pg.blank
                 THEN [workers[i] EXCEPT !.pc = "next_combo"]
                 ELSE [workers[i] EXCEPT !.pc = "pages1", !.resp = pg])
    /\ UNCHANGED <<envVars, fgVars, dumps, call>>

\* page 1: on a failed fetch or an empty body, `continue` with the next combination
W_Fetch1(i) ==
    /\ workers[i].pc = "fetch1"
    /\ \/ /\ timeline' = Append(timeline, Tl("post", i, workers[i].idx, 1, "", 0, FALSE, PgBlank))
          /\ session' = Put(FetchFailure(1))
          /\ workers' = SetWorker(i, [workers[i] EXCEPT !.pc = "next_combo"])
       \/ \E pg \in portal[Combination(workers[i]).Category_Value] :
            /\ timeline' = Append(timeline, Tl("post", i, workers[i].idx, 1, "", 0, TRUE, pg))
            /\ session' = Put(FetchSuccess(1))
            /\ workers' = SetWorker(i,
                 IF pg.blank
                 THEN [workers[i] EXCEPT !.pc = "next_combo"]
                 ELSE [workers[i] EXCEPT !.pc = "pages1", !.resp = pg])
    /\ UNCHANGED <<envVars, fgVars, dumps, call>>

W_Pages1(i) ==
    /\ workers[i].pc = "pages1"
    /\ LET total_pages == get_total_pages(workers[i].resp)
       IN /\ workers' = SetWorker(i, [workers[i] EXCEPT !.pc = "extract1",
                                                        !.total_pages = total_pages])
          /\ session' = Put(<<Ev("Found pages", 0, "", total_pages)>>)
    /\ UNCHANGED <<envVars, fgVars, dumps, timeline, call>>

NewDumps(w, dumped) ==
    IF dumped THEN dumps \cup {<<Combination(w).Category_Name, w.page>>} ELSE dumps

\* extract_pdfs on page 1, and the early exit
W_Extract1(i) ==
    /\ workers[i].pc = "extract1"
    /\ LET w == workers[i]
           r == extract_pdfs(w.resp, 1, disk)
       IN /\ dumps' = NewDumps(w, r.dumped)
          /\ IF r.pdfs = <<>> /\ Contains(Lower(w.resp.text), PhraseNoRecords)
             THEN /\ session' = Put(Append(r.events, Ev("Skipping further pages", 0, "", 0)))
                  /\ workers' = SetWorker(i, [w EXCEPT !.pdfs = r.pdfs, !.pc = "next_combo"])
             ELSE /\ session' = Put(r.events)
                  /\ workers' = SetWorker(i,
                       [w EXCEPT !.pdfs = r.pdfs, !.k = 1,
                                 !.pc = IF r.pdfs = <<>> THEN "debug1" ELSE "download1"])
    /\ UNCHANGED <<envVars, fgVars, timeline, call>>

\* (mutant) a failed download or upload ends the loop over the descriptors
DownloadStep_AbortOnFailure(i, after) ==
    LET w == workers[i]
    IN \E outcome \in Outcomes :
        LET r == download_pdf(w.pdfs[w.k], w.processed_urls, outcome)
            url == w.pdfs[w.k].pdf_url
        IN /\ session' = Put(r.events)
           /\ timeline' = timeline
                  \o (IF r.get
                      THEN <<Tl("get", i, w.idx, w.page, url, 0, r.upload, PgBlank)>>
                      ELSE <<>>)
                  \o (IF r.upload
                      THEN <<Tl("upload", i, w.idx, w.page, url, 0, r.ret, PgBlank)>>
                      ELSE <<>>)
           /\ workers' = SetWorker(i,
                [w EXCEPT !.processed_urls = r.processed_urls, !.k = @ + 1,
                          !.pc = IF w.k = Len(w.pdfs) \/ (r.get /\ ~r.ret)
                                 THEN after ELSE w.pc])

\* one pass of `for pdf in pdfs: download_pdf(...)`
DownloadStep(i, after) ==
    LET w == workers[i]
    IN \E outcome \in Outcomes :
        LET r == download_pdf(w.pdfs[w.k], w.processed_urls, outcome)
            url == w.pdfs[w.k].pdf_url
        IN /\ session' = Put(r.events)
           /\ timeline' = timeline
                  \o (IF r.get
                      THEN <<Tl("get", i, w.idx, w.page, url, 0, r.upload, PgBlank)>>
                      ELSE <<>>)
                  \o (IF r.upload
                      THEN <<Tl("upload", i, w.idx, w.page, url, 0, r.ret, PgBlank)>>
                      ELSE <<>>)
           /\ workers' = SetWorker(i,
                [w EXCEPT !.processed_urls = r.processed_urls, !.k = @ + 1,
                          !.pc = IF w.k = Len(w.pdfs) THEN after ELSE w.pc])

W_Download1(i) ==
    /\ workers[i].pc = "download1"
    /\ DownloadStep(i, "debug1")
    /\ UNCHANGED <<envVars, fgVars, dumps, call>>

W_Debug1(i) ==
    /\ workers[i].pc = "debug1"
    /\ session' = Put(save_debug_html(disk, 1))
    /\ dumps' = NewDumps(workers[i], disk)
    /\ workers' = SetWorker(i, AfterPage(workers[i], 1))
    /\ UNCHANGED <<envVars, fgVars, timeline, call>>

\* (mutant) a failed fetch ends the page loop (`break` for `continue`)
W_Fetch_BreakOnFailure(i) ==
    /\ workers[i].pc = "fetch"
    /\ LET w == workers[i]
       IN \/ /\ timeline' = Append(timeline, Tl("post", i, w.idx, w.page, "", 0, FALSE, PgBlank))
             /\ session' = Put(<<Ev("Fetching page", w.page, "", w.total_pages)>>
                               \o FetchFailure(w.page))
             /\ workers' = SetWorker(i, [w EXCEPT !.pc = "sleep2"])
          \/ \E pg \in portal[Combination(w).Category_Value] :
               /\ timeline' = Append(timeline, Tl("post", i, w.idx, w.page, "", 0, TRUE, pg))
               /\ session' = Put(<<Ev("Fetching page", w.page, "", w.total_pages)>>
                                 \o FetchSuccess(w.page))
               /\ workers' = SetWorker(i,
                    IF pg.blank
                    THEN AfterPage(w, w.page)
                    ELSE [w EXCEPT !.pc = "extract", !.resp = pg])
    /\ UNCHANGED <<envVars, fgVars, dumps, call>>

\* pages 2..total_pages: on a failed fetch or an empty body, `continue`
W_Fetch(i) ==
    /\ workers[i].pc = "fetch"
    /\ LET w == workers[i]
       IN \/ /\ timeline' = Append(timeline, Tl("post", i, w.idx, w.page, "", 0, FALSE, PgBlank))
             /\ session' = Put(<<Ev("Fetching page", w.page, "", w.total_pages)>>
                               \o FetchFailure(w.page))
             /\ workers' = SetWorker(i, AfterPage(w, w.page))
          \/ \E pg \in portal[Combination(w).Category_Value] :
               /\ timeline' = Append(timeline, Tl("post", i, w.idx, w.page, "", 0, TRUE, pg))
               /\ session' = Put(<<Ev("Fetching page", w.page, "", w.total_pages)>>
                                 \o FetchSuccess(w.page))
               /\ workers' = SetWorker(i,
                    IF pg.blank
                    THEN AfterPage(w, w.page)
                    ELSE [w EXCEPT !.pc = "extract", !.resp = pg])
    /\ UNCHANGED <<envVars, fgVars, dumps, call>>

\* (mutant) a page >= 2 without descriptors ends the combination
W_Extract_EarlyExit(i) ==
    /\ workers[i].pc = "extract"
    /\ LET w == workers[i]
           r == extract_pdfs(w.resp, w.page, disk)
       IN /\ dumps' = NewDumps(w, r.dumped)
          /\ session' = Put(r.events)
          /\ workers' = SetWorker(i,
               [w EXCEPT !.pdfs = r.pdfs, !.k = 1,
                         !.pc = IF r.pdfs = <<>> THEN "sleep2" ELSE "download"])
    /\ UNCHANGED <<envVars, fgVars, timeline, call>>

W_Extract(i) ==
    /\ workers[i].pc = "extract"
    /\ LET w == workers[i]
           r == extract_pdfs(w.resp, w.page, disk)
       IN /\ dumps' = NewDumps(w, r.dumped)
          /\ session' = Put(r.events)
          /\ workers' = SetWorker(i,
               [w EXCEPT !.pdfs = r.pdfs, !.k = 1,
                         !.pc = IF r.pdfs = <<>> THEN "debug" ELSE "download"])
    /\ UNCHANGED <<envVars, fgVars, timeline, call>>

W_Download(i) ==
    /\ workers[i].pc = "download"
    /\ DownloadStep(i, "debug")
    /\ UNCHANGED <<envVars, fgVars, dumps, call>>

W_Debug(i) ==
    /\ workers[i].pc = "debug"
    /\ session' = Put(save_debug_html(disk, workers[i].page))
    /\ dumps' = NewDumps(workers[i], disk)
    /\ workers' = SetWorker(i, [workers[i] EXCEPT !.pc = "sleep1"])
    /\ UNCHANGED <<envVars, fgVars, timeline, call>>

\* time.sleep(1), at the end of the body of the page loop
W_Sleep1(i) ==
    /\ workers[i].pc = "sleep1"
    /\ timeline' = Append(timeline, Tl("sleep", i, workers[i].idx, workers[i].page, "", 1, TRUE, PgBlank))
    /\ workers' = SetWorker(i, AfterPage(workers[i], workers[i].page))
    /\ UNCHANGED <<envVars, fgVars, session, dumps, call>>

\* time.sleep(2), at the end of the body of the combination loop
W_Sleep2(i) ==
    /\ workers[i].pc = "sleep2"
    /\ timeline' = Append(timeline, Tl("sleep", i, workers[i].idx, 0, "", 2, TRUE, PgBlank))
    /\ workers' = SetWorker(i, [workers[i] EXCEPT !.pc = "next_combo"])
    /\ UNCHANGED <<envVars, fgVars, session, dumps, call>>

\* crawl_pdfs called with a fresh queue, on its own
InitCrawl ==
    /\ xlsx \in Sheets
    /\ portal = RichPortal
    /\ disk \in BOOLEAN
    /\ workers = <<NewWorker>>
    /\ session = NewSession
    /\ fpc = "off"
    /\ report = "none"
    /\ reruns = 0
    /\ dumps = {}
    /\ timeline = <<>>
    /\ call = IdleCall

NextCrawl ==
    \/ \E i \in DOMAIN workers : W_Start(i)
    \/ \E i \in DOMAIN workers : W_Load(i)
    \/ \E i \in DOMAIN workers : W_NextCombo(i)
    \/ \E i \in DOMAIN workers : W_Fetch1(i)
    \/ \E i \in DOMAIN workers : W_Pages1(i)
    \/ \E i \in DOMAIN workers : W_Extract1(i)
    \/ \E i \in DOMAIN workers : W_Download1(i)
    \/ \E i \in DOMAIN workers : W_Debug1(i)
    \/ \E i \in DOMAIN workers : W_Fetch(i)
    \/ \E i \in DOMAIN workers : W_Extract(i)
    \/ \E i \in DOMAIN workers : W_Download(i)
    \/ \E i \in DOMAIN workers : W_Debug(i)
    \/ \E i \in DOMAIN workers : W_Sleep1(i)
    \/ \E i \in DOMAIN workers : W_Sleep2(i)

SpecCrawl == InitCrawl /\ [][NextCrawl]_vars

\* --------------------------------------------------------------------- main
\* (mutant) a worker is started whatever the crawling flag says
F_Start_Always ==
    /\ fpc = "start"
    /\ LET s0 == IF session.init THEN session ELSE [NewSession EXCEPT !.init = TRUE]
       IN /\ session' = [s0 EXCEPT !.crawling = TRUE]
          /\ workers' = Append(workers, NewWorker)
          /\ fpc' = "drain"
    /\ UNCHANGED <<envVars, report, reruns, dumps, timeline, call>>

\* One execution of the script, from its top to the start of the display
\* loop: the session state is set up on the session's first execution, and
\* a worker thread is started unless the session is marked as crawling.
F_Start ==
    /\ fpc = "start"
    /\ LET s0 == IF session.init THEN session ELSE [NewSession EXCEPT !.init = TRUE]
       IN IF ~s0.crawling
          THEN /\ session' = [s0 EXCEPT !.crawling = TRUE]
               /\ workers' = Append(workers, NewWorker)
               /\ fpc' = "drain"
          ELSE /\ session' = s0
               /\ workers' = workers
               /\ fpc' = "drain"
    /\ UNCHANGED <<envVars, report, reruns, dumps, timeline, call>>

\* (mutant) the queue hands out its newest message first
F_Get_Lifo ==
    /\ fpc = "drain"
    /\ session.progress_queue # <<>>
    /\ LET message == Last(session.progress_queue)
       IN session' = [session EXCEPT
                        !.progress_queue = Front(@),
                        !.progress_log = Append(@, message),
                        !.crawling = IF IsTerminalMarker(message) THEN FALSE ELSE @]
    /\ UNCHANGED <<envVars, workers, fgVars, dumps, timeline, call>>

\* one pass of the inner loop: get_nowait, append to the log, test the markers
F_Get ==
    /\ fpc = "drain"
    /\ session.progress_queue # <<>>
    /\ LET message == Head(session.progress_queue)
       IN session' = [session EXCEPT
                        !.progress_queue = Tail(@),
                        !.progress_log = Append(@, message),
                        !.crawling = IF IsTerminalMarker(message) THEN FALSE ELSE @]
    /\ UNCHANGED <<envVars, workers, fgVars, dumps, timeline, call>>

\* the queue is seen empty: the log is rendered, the script sleeps 0.5 s and
\* tests `while st.session_state.crawling` again
F_Display ==
    /\ fpc = "drain"
    /\ session.progress_queue = <<>>
    /\ fpc' = IF session.crawling THEN "drain" ELSE "report"
    /\ fpc' # fpc
    /\ UNCHANGED <<envVars, workers, session, report, reruns, dumps, timeline, call>>

\* st.success / st.error after the loop
F_Report ==
    /\ fpc = "report"
    /\ report' = IF /\ session.progress_log # <<>>
                    /\ Last(session.progress_log).kind = "Crawling completed"
                 THEN "success"
                 ELSE "error"
    /\ fpc' = "end"
    /\ UNCHANGED <<envVars, workers, session, reruns, dumps, timeline, call>>

\* Streamlit executes the script again for the same session (a rerun request
\* is served at an st.* call of the display loop, or after the script ended)
F_Rerun ==
    /\ fpc \in {"drain", "end"}
    /\ reruns < MaxReruns
    /\ reruns' = reruns + 1
    /\ fpc' = "start"
    /\ report' = "none"
    /\ UNCHANGED <<envVars, workers, session, dumps, timeline, call>>

\* The rerun request is served at the st.write between the assignment of
\* the crawling flag and the start of the thread: the script run ends with
\* the flag set and no worker started, and the script is executed again
F_StartInterrupted ==
    /\ fpc = "start"
    /\ reruns < MaxReruns
    /\ LET s0 == IF session.init THEN session ELSE [NewSession EXCEPT !.init = TRUE]
       IN /\ ~s0.crawling
          /\ session' = [s0 EXCEPT !.crawling = TRUE]
    /\ reruns' = reruns + 1
    /\ fpc' = "start"
    /\ UNCHANGED <<envVars, workers, report, dumps, timeline, call>>

\* Streamlit's stop request (the Stop button), served at an st.* call of the
\* display loop: the script run ends there; the worker thread is not told
F_Stop ==
    /\ fpc = "drain"
    /\ fpc' = "stopped"
    /\ UNCHANGED <<envVars, workers, session, report, reruns, dumps, timeline, call>>

\* one execution of the script in a new session
InitApp ==
    /\ xlsx \in AppSheets
    /\ portal = AppPortal
    /\ disk \in BOOLEAN
    /\ workers = <<>>
    /\ session = NewSession
    /\ fpc = "start"
    /\ report = "none"
    /\ reruns = 0
    /\ dumps = {}
    /\ timeline = <<>>
    /\ call = IdleCall

NextApp ==
    \/ NextCrawl
    \/ F_Start
    \/ F_Get
    \/ F_Display
    \/ F_Report

Spec == InitApp /\ [][NextApp]_vars

\* one Streamlit session: the script may be executed again
InitSession ==
    /\ xlsx \in SmallSheets
    /\ portal = SmallPortal
    /\ disk = TRUE
    /\ workers = <<>>
    /\ session = NewSession
    /\ fpc = "start"
    /\ report = "none"
    /\ reruns = 0
    /\ dumps = {}
    /\ timeline = <<>>
    /\ call = IdleCall

NextSession ==
    \/ NextApp
    \/ F_Rerun
    \/ F_StartInterrupted
    \/ F_Stop

SpecSession == InitSession /\ [][NextSession]_vars

\* one execution of the script, with every thread scheduled again and again
\* and every external call returning
Fairness ==
    /\ WF_vars(NextCrawl)
    /\ WF_vars(F_Start)
    /\ WF_vars(F_Get)
    /\ WF_vars(F_Display)
    /\ WF_vars(F_Report)

SpecLive == InitSession /\ [][NextApp]_vars /\ Fairness

\* ------------------------------------------------- the helpers on their own
\* (operators with a parameter: the sets are built only where they are used)
Texts(n) == SeqsUpTo(Words, n)
Tables(n) == {NoTable} \cup {Table(TRUE, trs) : trs \in SeqsUpTo(Rows, n)}
Banners(n) == {NoBanner} \cup {Banner(TRUE, d) : d \in SeqsUpTo(Digits, n)}
Hiddens(n) == {NoHidden} \cup {Hidden(TRUE, v) : v \in SeqsUpTo(Chars, n)}

CallOn(pg) == [fn |-> "none", arg |-> pg, pages |-> 0, pdfs |-> <<>>, events |-> <<>>,
               dumped |-> FALSE]

InitPure ==
    /\ xlsx = Sheet(FALSE, FALSE, <<>>)
    /\ portal = SmallPortal
    /\ disk \in BOOLEAN
    /\ workers = <<>>
    /\ session = NewSession
    /\ fpc = "off"
    /\ report = "none"
    /\ reruns = 0
    /\ dumps = {}
    /\ timeline = <<>>
    \* get_total_pages: every banner with every hidden field;
    \* extract_pdfs: every text with two tables, every table with two texts
    /\ \/ \E b \in Banners(MaxDigits), h \in Hiddens(MaxDigits) :
            call = CallOn(Page(FALSE, <<"x">>, b, h, NoTable))
       \/ \E t \in Texts(MaxWords), tb \in {NoTable, PgRows.table} :
            call = CallOn(Page(FALSE, t, NoBanner, NoHidden, tb))
       \/ \E t \in {<<"x">>, <<"no", "records">>}, tb \in Tables(MaxTrs) :
            call = CallOn(Page(FALSE, t, NoBanner, NoHidden, tb))

P_get_total_pages ==
    /\ call.fn = "none"
    /\ call' = [call EXCEPT !.fn = "get_total_pages", !.pages = get_total_pages(call.arg)]
    /\ UNCHANGED <<envVars, workers, session, fgVars, dumps, timeline>>

P_extract_pdfs ==
    /\ call.fn = "none"
    /\ LET r == extract_pdfs(call.arg, 1, disk)
       IN call' = [call EXCEPT !.fn = "extract_pdfs", !.pdfs = r.pdfs, !.events = r.events,
                               !.dumped = r.dumped]
    /\ UNCHANGED <<envVars, workers, session, fgVars, dumps, timeline>>

NextPure ==
    \/ P_get_total_pages
    \/ P_extract_pdfs

SpecPure == InitPure /\ [][NextPure]_vars

\* =================================================================== claims
\* every event put so far, in emission order (the log, then the queue)
Emitted == session.progress_log \o session.progress_queue

\* the events and the timeline entries a step adds
NewEvents == SubSeq(Emitted', Len(Emitted) + 1, Len(Emitted'))
NewEntries == SubSeq(timeline', Len(timeline) + 1, Len(timeline'))

HasKind(events, kind) == \E j \in 1..Len(events) : events[j].kind = kind

IsPost(e) == e.kind = "post"
SameCombination(e, f) == e.w = f.w /\ e.idx = f.idx

\* worker i took the step
Stepped(i) == workers'[i] # workers[i]

\* ---------------------------------------------------------------------- C1
\* C1 (as claimed): within one combination the GET of a pdf_url is issued at
\* most once, whatever the first attempt's outcome.
C1_AtMostOneAttemptPerUrl ==
    \A a, b \in DOMAIN timeline :
        (/\ a < b
         /\ timeline[a].kind = "get"
         /\ timeline[b].kind = "get"
         /\ SameCombination(timeline[a], timeline[b]))
        => timeline[a].url # timeline[b].url

\* ---------------------------------------------------------------------- C2
\* C2 (as claimed): when the text of page 1 of a combination contains "no
\* records found" or "no matching records" in any letter case, extraction of
\* page 1 gives no descriptor and no page >= 2 of that combination is
\* requested.
C2_NoRecordsStopsCombination ==
    \A a \in DOMAIN timeline :
        (/\ IsPost(timeline[a])
         /\ timeline[a].page = 1
         /\ timeline[a].ok
         /\ HasNoRecordsPhrase(timeline[a].body.text))
        => /\ extract_pdfs(timeline[a].body, 1, disk).pdfs = <<>>
           /\ \A b \in DOMAIN timeline :
                (IsPost(timeline[b]) /\ SameCombination(timeline[a], timeline[b]))
                => timeline[b].page = 1

\* ---------------------------------------------------------------------- C3
FatalInit(i) == workers[i].drive = "failed" \/ load_combinations(xlsx) = <<>>

\* C3 (as claimed): a worker that ended on a fatal initialisation condition
\* (no Drive service, or no combinations loaded) has requested no page and
\* has put the failure marker "Error in crawling" on the progress stream.
C3_FatalInitEmitsFailureMarker ==
    \A i \in DOMAIN workers :
        (workers[i].pc = "done" /\ FatalInit(i))
        => /\ \A a \in DOMAIN timeline : ~(IsPost(timeline[a]) /\ timeline[a].w = i)
           /\ HasKind(Emitted, "Error in crawling")

\* ---------------------------------------------------------------------- C4
InitOk(i) == workers[i].drive = "up" /\ load_combinations(xlsx) # <<>>

\* C4: a worker whose initialisation succeeded ends with "Crawling
\* completed" as its last event, whatever recoverable errors occurred; the
\* script then reports success; and a failure report implies a fatal
\* initialisation condition.
C4_RecoverableErrorsStillSucceed ==
    /\ \A i \in DOMAIN workers :
        (workers[i].pc = "done" /\ InitOk(i))
        => Emitted # <<>> /\ Last(Emitted).kind = "Crawling completed"
    /\ (fpc = "end" /\ workers # <<>> /\ InitOk(Len(workers))) => report = "success"
    /\ report = "error" => (workers # <<>> /\ FatalInit(Len(workers)))

\* a successful report after a fetch failure, a malformed page, a malformed
\* row, a download failure and an upload failure
C4_Witness ==
    /\ fpc = "end"
    /\ report = "success"
    /\ HasKind(session.progress_log, "Error fetching page")
    /\ HasKind(session.progress_log, "No results table found")
    /\ HasKind(session.progress_log, "Insufficient columns")
    /\ HasKind(session.progress_log, "Error downloading PDF")
    /\ HasKind(session.progress_log, "Error processing PDF")

\* ---------------------------------------------------------------------- C5
\* C5 (as claimed): between two consecutive page requests of one combination
\* there is a sleep of 1.
C5_DelayBetweenPageRequests ==
    \A a, b \in DOMAIN timeline :
        (/\ a < b
         /\ IsPost(timeline[a])
         /\ IsPost(timeline[b])
         /\ SameCombination(timeline[a], timeline[b])
         /\ \A c \in (a + 1)..(b - 1) :
                ~(IsPost(timeline[c]) /\ SameCombination(timeline[a], timeline[c])))
        => \E c \in (a + 1)..(b - 1) :
                /\ timeline[c].kind = "sleep"
                /\ timeline[c].secs = 1
                /\ timeline[c].w = timeline[a].w

\* ---------------------------------------------------------------------- C6
BannerCount(soup) == soup.banner.div /\ soup.banner.digits # <<>>
HiddenValue(soup) == soup.hidden.input /\ soup.hidden.value # <<>>

\* C6 (as claimed): get_total_pages returns at least 1, and exactly 1 when
\* neither source is present or the hidden value does not parse.
C6_PageCountAtLeastOne ==
    call.fn = "get_total_pages"
    => /\ call.pages >= 1
       /\ (~BannerCount(call.arg) /\ ~HiddenValue(call.arg)) => call.pages = 1
       /\ (~BannerCount(call.arg) /\ HiddenValue(call.arg)
             /\ ~IntParses(call.arg.hidden.value)) => call.pages = 1

\* ---------------------------------------------------------------------- C7
\* C7: a step adds no GET and no upload of a URL that is in the stepping
\* combination's processed_urls, and processed_urls is empty when a
\* combination's page 1 is about to be requested.
C7_SeenUrlNotResubmitted ==
    [][\A i \in DOMAIN workers :
        /\ \A j \in DOMAIN NewEntries :
            (/\ NewEntries[j].kind \in {"get", "upload"}
             /\ NewEntries[j].w = i
             /\ NewEntries[j].idx = workers[i].idx)
            => NewEntries[j].url \notin workers[i].processed_urls
        /\ workers'[i].pc = "fetch1" => workers'[i].processed_urls = {}]_vars

\* a duplicate was skipped in one combination, and a URL uploaded in the
\* first combination was requested again in the second
C7_Witness ==
    /\ HasKind(Emitted, "Skipping duplicate PDF")
    /\ \E a, b \in DOMAIN timeline :
        /\ a < b
        /\ timeline[a].kind = "upload" /\ timeline[a].ok /\ timeline[a].idx = 1
        /\ timeline[b].kind = "get" /\ timeline[b].idx = 2
        /\ timeline[a].w = timeline[b].w
        /\ timeline[a].url = timeline[b].url

\* ---------------------------------------------------------------------- C8
\* C8 (as claimed): download_pdf on a descriptor whose URL is not in
\* processed_urls leaves the URL in the set, whatever the outcome; on a URL
\* already in the set it puts "Skipping duplicate PDF" and leaves the set.
C8_UrlInsertedWhenPresented ==
    [][\A i \in DOMAIN workers :
        (workers[i].pc \in {"download1", "download"} /\ Stepped(i))
        => LET w == workers[i]
               u == w.pdfs[w.k].pdf_url
           IN IF u \notin w.processed_urls
              THEN u \in workers'[i].processed_urls
              ELSE /\ workers'[i].processed_urls = w.processed_urls
                   /\ HasKind(NewEvents, "Skipping duplicate PDF")]_vars

\* ---------------------------------------------------------------------- C9
\* worker i's step was a page request that failed
FailedFetch(i) ==
    /\ Len(NewEntries) = 1
    /\ IsPost(NewEntries[1])
    /\ ~NewEntries[1].ok
    /\ NewEntries[1].w = i

\* C9 (as claimed): after a failed fetch of page p, page 1 included, nothing
\* is dumped and the next page of the same combination is requested (after
\* the last page the combination ends as usual).
C9_FailedFetchGoesToNextPage ==
    [][\A i \in DOMAIN workers :
        FailedFetch(i)
        => LET p == NewEntries[1].page
           IN /\ dumps' = dumps
              /\ workers'[i].idx = workers[i].idx
              /\ IF p >= 2 /\ p >= workers[i].total_pages
                 THEN workers'[i].pc = "sleep2"
                 ELSE workers'[i].pc = "fetch" /\ workers'[i].page = p + 1]_vars

\* C9 (amended): after a failed fetch of a page p >= 2 nothing is dumped and
\* page p + 1 of the same combination is requested next (after the last page
\* the combination ends as usual); after a failed fetch of page 1 nothing is
\* dumped, no further page of that combination is requested and the worker
\* goes on with the next combination.
C9_FailedFetchSkipsPageOrCombination ==
    [][\A i \in DOMAIN workers :
        FailedFetch(i)
        => LET p == NewEntries[1].page
           IN /\ dumps' = dumps
              /\ workers'[i].idx = workers[i].idx
              /\ workers'[i].processed_urls = workers[i].processed_urls
              /\ IF p = 1
                 THEN workers'[i].pc = "next_combo"
                 ELSE IF p >= workers[i].total_pages
                 THEN workers'[i].pc = "sleep2"
                 ELSE workers'[i].pc = "fetch" /\ workers'[i].page = p + 1]_vars

\* page 1 of the first combination failed and the second combination was
\* started; there page 2 failed and page 3 was requested next
C9_Witness ==
    \E a, b \in DOMAIN timeline :
        /\ a + 1 < b
        /\ b < Len(timeline)
        /\ IsPost(timeline[a]) /\ ~timeline[a].ok
        /\ timeline[a].page = 1 /\ timeline[a].idx = 1
        /\ IsPost(timeline[a + 1]) /\ timeline[a + 1].idx = 2 /\ timeline[a + 1].page = 1
        /\ IsPost(timeline[b]) /\ ~timeline[b].ok
        /\ timeline[b].page = 2 /\ timeline[b].idx = 2
        /\ IsPost(timeline[b + 1]) /\ timeline[b + 1].idx = 2 /\ timeline[b + 1].page = 3

\* --------------------------------------------------------------------- C10
RowWarnings == {"Insufficient columns", "No PDF link in row"}
MalformedRow(row) == row.tds < MinCols \/ ~HasPdfLink(row)
Count(events, kinds) == Cardinality({j \in 1..Len(events) : events[j].kind \in kinds})

\* C10 (as claimed): a step in which a recoverable error occurs puts an event
\* describing it: a failed page fetch, a page without results table, an
\* extraction that raises, each row with fewer than 5 columns, each row
\* without PDF link, a failed download, a failed upload.
C10_EveryRecoverableErrorEmitsEvent ==
    [][\A i \in DOMAIN workers :
        Stepped(i)
        => /\ FailedFetch(i) => HasKind(NewEvents, "Error fetching page")
           /\ workers[i].pc \in {"extract1", "extract"}
              => LET pg == workers[i].resp
                     rows == DataRows(pg.table)
                 IN \/ HasNoRecordsPhrase(pg.text)
                    \/ ~pg.table.present /\ HasKind(NewEvents, "No results table found")
                    \/ /\ pg.table.present
                       /\ \E j \in DOMAIN rows : rows[j].bad
                       /\ HasKind(NewEvents, "Error extracting PDFs")
                    \/ /\ pg.table.present
                       /\ \A j \in DOMAIN rows : ~rows[j].bad
                       /\ Count(NewEvents, RowWarnings)
                            >= Cardinality({j \in DOMAIN rows : MalformedRow(rows[j])})
           /\ \A j \in DOMAIN NewEntries :
                /\ (NewEntries[j].kind = "get" /\ ~NewEntries[j].ok)
                   => HasKind(NewEvents, "Error downloading PDF")
                /\ (NewEntries[j].kind = "upload" /\ ~NewEntries[j].ok)
                   => HasKind(NewEvents, "Error processing PDF")]_vars

\* --------------------------------------------------------------------- C11
\* C11 (as claimed): between the last page request of one combination and the
\* first page request of the next there is a sleep of 2, whichever way the
\* earlier combination ended.
C11_DelayBetweenCombinations ==
    \A a, b \in DOMAIN timeline :
        (/\ a < b
         /\ IsPost(timeline[a])
         /\ IsPost(timeline[b])
         /\ timeline[a].w = timeline[b].w
         /\ timeline[b].idx = timeline[a].idx + 1
         /\ \A c \in (a + 1)..(b - 1) : ~IsPost(timeline[c]))
        => \E c \in (a + 1)..(b - 1) :
                /\ timeline[c].kind = "sleep"
                /\ timeline[c].secs = 2
                /\ timeline[c].w = timeline[a].w

\* --------------------------------------------------------------------- C12
\* worker i's step was a download_pdf whose GET or whose upload failed
FailedTransfer(i) ==
    \E j \in DOMAIN NewEntries :
        /\ NewEntries[j].w = i
        /\ NewEntries[j].kind \in {"get", "upload"}
        /\ ~NewEntries[j].ok

\* the combination idx of worker w is over
Over(w, idx) ==
    \/ workers[w].idx > idx
    \/ workers[w].idx = idx /\ workers[w].pc \in {"sleep2", "next_combo", "done"}

\* page_no of combination idx of worker w was requested
Requested(w, idx, page_no) ==
    \E b \in DOMAIN timeline :
        /\ IsPost(timeline[b])
        /\ timeline[b].w = w
        /\ timeline[b].idx = idx
        /\ timeline[b].page = page_no

\* total_pages of the combination of timeline entry e, as computed from the
\* answer to its page 1
TotalPagesOf(e) ==
    LET a == CHOOSE a \in DOMAIN timeline :
                 /\ IsPost(timeline[a])
                 /\ timeline[a].ok
                 /\ SameCombination(timeline[a], e)
                 /\ timeline[a].page = 1
    IN get_total_pages(timeline[a].body)

\* the descriptor loop moves on after a failure, and it is left only when
\* every descriptor of the page was handed to download_pdf
C12_Step ==
    \A i \in DOMAIN workers :
        FailedTransfer(i)
        => LET w == workers[i]
               v == workers'[i]
           IN /\ v.pdfs = w.pdfs
              /\ v.k = w.k + 1
              /\ v.idx = w.idx
              /\ v.page = w.page
              /\ v.total_pages = w.total_pages
              /\ v.combinations = w.combinations
              /\ v.processed_urls = w.processed_urls
              /\ IF w.k < Len(w.pdfs)
                 THEN v.pc = w.pc
                 ELSE v.pc = (IF w.pc = "download1" THEN "debug1" ELSE "debug")
              /\ ~HasKind(NewEvents, "Error in crawling")

C12_State ==
    /\ \A i \in DOMAIN workers :
        /\ workers[i].pc \in {"download1", "download"} => workers[i].k <= Len(workers[i].pdfs)
        /\ workers[i].pc \in {"debug1", "debug", "sleep1"} => workers[i].k = Len(workers[i].pdfs) + 1
    /\ \A a \in DOMAIN timeline :
        (timeline[a].kind \in {"get", "upload"} /\ ~timeline[a].ok)
        => LET e == timeline[a]
           IN /\ Over(e.w, e.idx)
                 => \A q \in (e.page + 1)..TotalPagesOf(e) : Requested(e.w, e.idx, q)
              /\ workers[e.w].pc = "done"
                 => \A j \in (e.idx + 1)..Len(workers[e.w].combinations) : Requested(e.w, j, 1)

\* C12: a failed download or upload of one descriptor loses only that
\* descriptor: the remaining descriptors of the page are still handed to
\* download_pdf, and the remaining pages of the combination and the remaining
\* combinations are still requested.
C12_FailureLosesOnlyThatDescriptor == [][C12_Step]_vars /\ []C12_State

\* a GET failed for the first descriptor of page 1 of the first combination;
\* the page's second descriptor was requested after it, then page 2, then the
\* second combination, and the worker has finished
C12_Witness ==
    \E i \in DOMAIN workers :
        /\ workers[i].pc = "done"
        /\ \E a, b \in DOMAIN timeline :
            /\ a < b
            /\ timeline[a].kind = "get" /\ ~timeline[a].ok
            /\ timeline[a].w = i /\ timeline[a].idx = 1 /\ timeline[a].page = 1
            /\ timeline[b].kind = "get"
            /\ timeline[b].w = i /\ timeline[b].idx = 1 /\ timeline[b].page = 1
            /\ \E c \in DOMAIN timeline :
                /\ timeline[c].kind = "upload" /\ ~timeline[c].ok /\ timeline[c].w = i
        /\ Requested(i, 1, 2)
        /\ Requested(i, 2, 1)

\* --------------------------------------------------------------------- C13
\* the page request e brought no descriptor: it failed, the body was empty,
\* or extraction of the body gave none
NoDescriptors(e) ==
    \/ ~e.ok
    \/ e.body.blank
    \/ extract_pdfs(e.body, e.page, disk).pdfs = <<>>

\* C13: when a page p >= 2 of a combination brought no descriptor (a
\* no-records phrase, a malformed page, a failed fetch), every page
\* p+1..total_pages of the combination has been requested by the time the
\* combination is over.
C13_LaterEmptyPageDoesNotStop ==
    \A a \in DOMAIN timeline :
        (/\ IsPost(timeline[a])
         /\ timeline[a].page >= 2
         /\ NoDescriptors(timeline[a])
         /\ Over(timeline[a].w, timeline[a].idx))
        => \A q \in (timeline[a].page + 1)..TotalPagesOf(timeline[a]) :
                Requested(timeline[a].w, timeline[a].idx, q)

\* page 2 of a three-page combination showed a no-records phrase, page 3 was
\* requested after it, and the combination is over
C13_Witness ==
    \E a, b \in DOMAIN timeline :
        /\ a < b
        /\ IsPost(timeline[a]) /\ timeline[a].ok /\ timeline[a].page = 2
        /\ HasNoRecordsPhrase(timeline[a].body.text)
        /\ TotalPagesOf(timeline[a]) = 3
        /\ IsPost(timeline[b]) /\ timeline[b].page = 3
        /\ SameCombination(timeline[a], timeline[b])
        /\ Over(timeline[a].w, timeline[a].idx)

\* --------------------------------------------------------------------- C16
\* the pdf_urls uploaded successfully in combination idx of worker w
UploadedIn(w, idx) ==
    {timeline[a].url : a \in {b \in DOMAIN timeline :
                                /\ timeline[b].kind = "upload"
                                /\ timeline[b].ok
                                /\ timeline[b].w = w
                                /\ timeline[b].idx = idx}}

\* C16: download_pdf returns True exactly when the upload was confirmed and
\* adds the URL to processed_urls exactly then; processed_urls is the set of
\* the pdf_urls uploaded successfully so far in the current combination; no
\* pdf_url is uploaded successfully twice in one combination.
C16_SeenSetIsUploadedSet ==
    /\ \A i \in DOMAIN workers :
        /\ workers[i].processed_urls = UploadedIn(i, workers[i].idx)
        /\ workers[i].pc \in {"download1", "download"}
           => \A outcome \in Outcomes :
                LET w == workers[i]
                    u == w.pdfs[w.k].pdf_url
                    r == download_pdf(w.pdfs[w.k], w.processed_urls, outcome)
                IN /\ r.ret <=> (r.upload /\ outcome = "ok")
                   /\ r.processed_urls = IF r.ret THEN w.processed_urls \cup {u}
                                         ELSE w.processed_urls
    /\ \A a, b \in DOMAIN timeline :
        (/\ a < b
         /\ timeline[a].kind = "upload" /\ timeline[a].ok
         /\ timeline[b].kind = "upload" /\ timeline[b].ok
         /\ SameCombination(timeline[a], timeline[b]))
        => timeline[a].url # timeline[b].url

\* two documents were uploaded in one combination, one of them at its second
\* attempt, after its first upload had failed
C16_Witness ==
    \E i \in DOMAIN workers :
        /\ Cardinality(workers[i].processed_urls) = 2
        /\ \E a \in DOMAIN timeline :
            /\ timeline[a].kind = "upload" /\ ~timeline[a].ok
            /\ timeline[a].w = i /\ timeline[a].idx = workers[i].idx
            /\ timeline[a].url \in workers[i].processed_urls

\* --------------------------------------------------------------------- C17
\* p = ceil(n / 10)
IsCeilOfTenth(p, n) == p * 10 >= n /\ (p - 1) * 10 < n

\* C17 (as claimed): with a record count n in the banner the result is
\* ceil(n/10), whatever the hidden field; else with a hidden field value the
\* result is that value; else the result is 1.
C17_StrategyOrder ==
    call.fn = "get_total_pages"
    => IF BannerCount(call.arg)
       THEN IsCeilOfTenth(call.pages, DecimalValue(call.arg.banner.digits))
       ELSE IF HiddenValue(call.arg)
       THEN /\ IntParses(call.arg.hidden.value)
            /\ call.pages = IntOf(call.arg.hidden.value)
       ELSE call.pages = 1

\* C17 (amended): with a record count n in the banner the result is
\* ceil(n/10), whatever the hidden field; else with a hidden field value that
\* is an integer literal the result is that integer; else (no hidden value,
\* or one that is not an integer literal) the result is 1.
C17_StrategyOrderWithDefault ==
    call.fn = "get_total_pages"
    => IF BannerCount(call.arg)
       THEN IsCeilOfTenth(call.pages, DecimalValue(call.arg.banner.digits))
       ELSE IF HiddenValue(call.arg) /\ IntParses(call.arg.hidden.value)
       THEN call.pages = IntOf(call.arg.hidden.value)
       ELSE call.pages = 1

\* a banner of 47 records and a hidden page count of 3 gave 5
C17_Witness ==
    /\ call.fn = "get_total_pages"
    /\ call.arg.banner = Banner(TRUE, <<"4", "7">>)
    /\ call.arg.hidden = Hidden(TRUE, <<"3">>)
    /\ call.pages = 5

\* --------------------------------------------------------------------- C18
\* the descriptors of the rows with at least 5 columns and a PDF link, in order
DescriptorsOf(rows) ==
    LET kept == SelectSeq(rows, LAMBDA row : row.tds >= MinCols /\ HasPdfLink(row))
    IN [j \in 1..Len(kept) |-> Descriptor(kept[j])]

\* the <tr> elements after the first
AfterHeader(table) == SubSeq(table.trs, 2, Len(table.trs))

\* C18 (as claimed): on every results table extract_pdfs returns the
\* descriptors of the data rows with at least 5 columns and a PDF link, in
\* table order.
C18_ExtractsExactlyTheValidRows ==
    (call.fn = "extract_pdfs" /\ call.arg.table.present)
    => call.pdfs = DescriptorsOf(AfterHeader(call.arg.table))

\* C18 (amended): the same on a page whose text shows no no-records phrase
\* and none of whose data rows raises; with such a phrase or such a row the
\* result is empty.
C18_ExtractsTheValidRowsUnlessPageLost ==
    (call.fn = "extract_pdfs" /\ call.arg.table.present)
    => LET rows == AfterHeader(call.arg.table)
       IN IF \/ HasNoRecordsPhrase(call.arg.text)
             \/ \E j \in DOMAIN rows : rows[j].bad
          THEN call.pdfs = <<>>
          ELSE call.pdfs = DescriptorsOf(rows)

\* a short row and a row without anchor were skipped and the valid row after
\* them was extracted
C18_Witness ==
    /\ call.fn = "extract_pdfs"
    /\ call.arg.table = PgRows.table
    /\ ~HasNoRecordsPhrase(call.arg.text)
    /\ call.pdfs = <<Descriptor(HitRowB)>>

\* --------------------------------------------------------------------- C14
\* C14 (as claimed): once the script run has been stopped, no worker
\* requests a page any more.
C14_NoFetchAfterStop ==
    [][fpc = "stopped" => \A j \in DOMAIN NewEntries : ~IsPost(NewEntries[j])]_vars

\* --------------------------------------------------------------------- C15
\* the workers that can still take a crawl step
Crawling == {i \in DOMAIN workers : workers[i].pc # "done"}

C15_State ==
    /\ Cardinality(Crawling) <= 1
    /\ \A i \in DOMAIN workers :
        workers[i].pc = "fetch" => workers[i].k = Len(workers[i].pdfs) + 1
    /\ \A b, c \in DOMAIN timeline :
        (/\ IsPost(timeline[b])
         /\ timeline[c].kind \in {"get", "upload"}
         /\ SameCombination(timeline[b], timeline[c])
         /\ timeline[c].page < timeline[b].page)
        => c < b

C15_Step ==
    /\ Len(workers') > Len(workers) => Crawling = {}
    /\ \A j \in DOMAIN NewEntries : NewEntries[j].w \in Crawling

\* C15: within one session at most one worker can take a crawl step at any
\* time, a worker is started only when no earlier one can, every request is
\* issued by that one worker, and the requests for the descriptors of page p
\* precede the request of page p+1.
C15_OneWorkerStrictlySequential == [][C15_Step]_vars /\ []C15_State

\* the script was executed again after the first worker had finished: a
\* second worker was started, it processed page 1's descriptor and then
\* requested page 2
C15_Witness ==
    /\ reruns >= 1
    /\ Len(workers) = 2
    /\ workers[1].pc = "done"
    /\ \E b, c \in DOMAIN timeline :
        /\ c < b
        /\ timeline[c].kind = "get" /\ timeline[c].w = 2 /\ timeline[c].page = 1
        /\ IsPost(timeline[b]) /\ timeline[b].w = 2 /\ timeline[b].page = 2
    /\ \E a \in DOMAIN timeline : IsPost(timeline[a]) /\ timeline[a].w = 1

\* --------------------------------------------------------------------- C19
\* C19 (as claimed): the display loop eventually stops and the script shows
\* its final report, also when the combination list is missing, invalid or
\* empty.
C19_DisplayLoopEnds ==
    <>(fpc = "end" /\ ~session.crawling /\ report \in {"success", "error"})

\* --------------------------------------------------------------------- C20
C20_State ==
    /\ Count(Emitted, {"Crawling completed", "Error in crawling"}) <= 1
    /\ \A j \in DOMAIN Emitted : IsTerminalMarker(Emitted[j]) => j = Len(Emitted)
    /\ fpc \in {"report", "end"}
       => /\ session.progress_queue = <<>>
          /\ session.progress_log # <<>>
          /\ IsTerminalMarker(Last(session.progress_log))
          /\ Crawling = {}

\* the events put so far stay as they are and in their order, and so does the log
C20_Step ==
    /\ Len(Emitted') >= Len(Emitted)
    /\ SubSeq(Emitted', 1, Len(Emitted)) = Emitted
    /\ Len(session'.progress_log) >= Len(session.progress_log)
    /\ SubSeq(session'.progress_log, 1, Len(session.progress_log)) = session.progress_log

\* C20: in one script run the worker puts at most one terminal marker and no
\* event after it; the log and the queue together are the events put, in the
\* order of the puts; when the display loop has stopped the queue is empty,
\* so the log is all the events put, and its last entry is the terminal
\* marker.
C20_MarkerIsLastAndLogInOrder == [][C20_Step]_vars /\ []C20_State

\* the script has ended after a crawl with an upload and a failed page
\* request, and the log ends with the completion marker
C20_Witness ==
    /\ fpc = "end"
    /\ session.progress_queue = <<>>
    /\ Last(session.progress_log).kind = "Crawling completed"
    /\ HasKind(session.progress_log, "Uploaded to Google Drive")
    /\ HasKind(session.progress_log, "Error fetching page")
    /\ Len(session.progress_log) = Len(Emitted)

====
